---- MODULE Spec2Model ----
(***************************************************************************)
(* Community membership and role-based authorization of DeveloperHub.      *)
(*                                                                         *)
(* The database tables are the state.  Every controller method is written  *)
(* as a step function over (database, request frame): one step per awaited *)
(* Prisma statement (a batch $transaction([...]) is one step).  Run        *)
(* composes the steps of one request to completion; the sequential         *)
(* specification Spec executes whole requests one at a time, the           *)
(* interleaved specification SpecConc executes one request statement by    *)
(* statement while other requests commit in between its statements;       *)
(* SpecWork executes the task and project requests on a community that has *)
(* members; SpecAuth executes the role-change, delete and invite requests  *)
(* on that community for every role of the actor; SpecGuard applies        *)
(* roleGuard alone to every role and required set; SpecCreate creates a    *)
(* community beside the populated one; SpecRoute sends role requests       *)
(* through the route's validation; SpecMemberWork mixes task and project   *)
(* requests with joining, leaving and deleting; SpecStore executes the     *)
(* client's auth store, whose calls are answered in any order.             *)
(***************************************************************************)
EXTENDS Integers, FiniteSets, Sequences, TLC

\* ------------------------------------------------------------------ bounds
NumUsers == 3
MaxCommunities == 1
MaxInvites == 1
NumProcs == 1
MaxTasks == 1
MaxProjects == 1
MaxRequired == 2
MaxAccounts == 1
MaxCalls == 2

Users == 1..NumUsers
CommunityIds == 1..MaxCommunities
Codes == 1..MaxInvites
Procs == 1..NumProcs

\* ------------------------------------------------------------ enumerations
\* CommunityRole, as enumerated by roleMapping
Roles == {"OWNER", "ADMIN", "MANAGER", "DEVELOPER_I", "DEVELOPER_II",
          "DEVELOPER_III", "VIEWER"}

\* The lifecycle code compares roles with 'OWNER' and 'ADMIN' only and writes
\* 'OWNER' (create) and 'VIEWER' (join); VIEWER stands for every role it
\* never names.  These are the role values requested in lifecycle runs.
LifecycleRoles == {"OWNER", "ADMIN", "VIEWER"}

NoRow == "NoRow"
NoRole == "-"

\* responses and thrown errors
Created == "201"
Ok == "200"
NoContent == "204"
CommunityDeleted == "200 Community deleted as owner left"
Left == "200 Left the community successfully"
NotFoundError == "404 NotFoundError"
ForbiddenError == "403 ForbiddenError"
AlreadyMember == "Error: User is already a member of this community"
LastAdminLeave == "Error: Cannot leave as the last admin"
LastAdminDemote == "Error: Cannot demote the last admin"
UniqueViolation == "P2002"
ForeignKeyViolation == "P2003"
RecordNotFound == "P2025"
NotAMember == "You are not a member of this community"
InsufficientPermissions == "UnauthorizedException: Insufficient permissions"
WrongCommunity == "UnauthorizedException: Task does not belong to this community"
CreatorOnly == "Error: Only the project creator or community admin"
ServerError == "500"
Pending == "pending"

Failures == {NotFoundError, ForbiddenError, AlreadyMember, LastAdminLeave,
             LastAdminDemote, UniqueViolation, ForeignKeyViolation,
             RecordNotFound, NotAMember, InsufficientPermissions,
             WrongCommunity, CreatorOnly, ServerError}

VARIABLES db, last, frames, store, cookie, calls

vars == <<db, last, frames, store, cookie, calls>>

\* the client's auth store, the browser's jwt cookie (0: none, else the
\* account it names) and the store's calls that await a response
client == <<store, cookie, calls>>

Accounts == 1..MaxAccounts
CallIds == 1..MaxCalls

\* a call slot with no call in it
NoCall == [fn |-> "none", res |-> 0, stale |-> FALSE, seen |-> {}]

\* create<AuthState>: user null, all flags false; nobody is logged in
InitClient ==
  /\ store = [user |-> 0, loading |-> FALSE, checkingAuth |-> FALSE,
              isCheckingAuthLocked |-> FALSE]
  /\ cookie = 0
  /\ calls = [k \in CallIds |-> NoCall]

\* ---------------------------------------------------------------- database
EmptyDb ==
  [community |-> {}, communityMember |-> {}, communityInvite |-> {},
   project |-> {}, projectMember |-> {}, task |-> {},
   nextCommunityId |-> 1, nextCode |-> 1, nextProjectId |-> 1,
   nextTaskId |-> 1]

CommunityRows(d, c) == {r \in d.community : r.id = c}

MemberRows(d, c, u) ==
  {m \in d.communityMember : m.communityId = c /\ m.userId = u}

MembersOf(d, c) == {m \in d.communityMember : m.communityId = c}

InvitesOf(d, c) == {i \in d.communityInvite : i.communityId = c}

\* communityMember.findUnique({communityId_userId}) -> role or null
RoleOf(d, c, u) ==
  IF MemberRows(d, c, u) = {} THEN NoRow
  ELSE (CHOOSE m \in MemberRows(d, c, u) : TRUE).role

\* communityMember.count({ where: { communityId, role: 'ADMIN' } })
AdminCount(d, c) ==
  Cardinality({m \in MembersOf(d, c) : m.role = "ADMIN"})

\* communityMember.count({ where: { communityId } })
MemberCount(d, c) == Cardinality(MembersOf(d, c))

\* community.findUnique(...).isPrivate
IsPrivate(d, c) == (CHOOSE r \in CommunityRows(d, c) : TRUE).isPrivate

\* ------------------------------------------------------------------ frames
\* One request: its inputs, the statement it is at, and its response.
\* code is the invite code a join request carries (0: none); projectId and
\* assignedTo are -1 when the body leaves the field out and 0 when it is null.
\* memberRole is the handler's local member.role, the role its membership
\* lookup returned, which it keeps until it responds.  wrote is history:
\* whether a statement of the request, run by StepRequest, has changed the
\* database.
BaseFrame(op, u, c) ==
  [op |-> op, pc |-> "start", userId |-> u, communityId |-> c,
   targetUserId |-> 0, role |-> NoRole, isPrivate |-> FALSE, code |-> 0,
   taskId |-> 0, projectId |-> 0, assignedTo |-> 0, status |-> NoRole,
   memberRole |-> NoRow, wrote |-> FALSE, out |-> Pending]

Frame(op, u, c, t, r, p) ==
  [BaseFrame(op, u, c) EXCEPT !.targetUserId = t, !.role = r, !.isPrivate = p]

Idle == [BaseFrame("idle", 0, 0) EXCEPT !.pc = "done"]

Goto(d, f, pc) == [d |-> d, f |-> [f EXCEPT !.pc = pc]]

\* the handler's statement pc has read the member row and goes on to pc
Found(d, f, role, pc) ==
  [d |-> d, f |-> [f EXCEPT !.pc = pc, !.memberRole = role]]

Respond(d, f, out) ==
  [d |-> d, f |-> [f EXCEPT !.pc = "done", !.out = out, !.memberRole = NoRow]]

\* --------------------------------------------------- community controller
\* isUserAdminOrOwner without its role test
IsUserAdminOrOwner_AnyMember(d, c, u) ==
  IF RoleOf(d, c, u) = NoRow THEN NotFoundError ELSE "true"

\* isUserAdminOrOwner: "true", or the error it throws
IsUserAdminOrOwner(d, c, u) ==
  IF RoleOf(d, c, u) = NoRow THEN NotFoundError
  ELSE IF RoleOf(d, c, u) # "ADMIN" /\ RoleOf(d, c, u) # "OWNER"
       THEN ForbiddenError
       ELSE "true"

\* the deleting transaction without communityMember.deleteMany
DeleteCommunityTx_KeepsMembers(d, c) ==
  IF CommunityRows(d, c) = {} THEN d
  ELSE [d EXCEPT !.communityInvite = d.communityInvite \ InvitesOf(d, c),
                 !.community = d.community \ CommunityRows(d, c)]

\* the deleting transaction without communityInvite.deleteMany
DeleteCommunityTx_KeepsInvites(d, c) ==
  IF CommunityRows(d, c) = {} THEN d
  ELSE [d EXCEPT !.communityMember = d.communityMember \ MembersOf(d, c),
                 !.community = d.community \ CommunityRows(d, c)]

\* $transaction([communityMember.deleteMany, communityInvite.deleteMany,
\*               community.delete]); community.delete of a missing row throws
\* and the batch rolls back.
DeleteCommunityTx(d, c) ==
  IF CommunityRows(d, c) = {} THEN d
  ELSE [d EXCEPT !.communityMember = d.communityMember \ MembersOf(d, c),
                 !.communityInvite = d.communityInvite \ InvitesOf(d, c),
                 !.community = d.community \ CommunityRows(d, c)]

\* leaveCommunity and updateMemberRole without their last-admin test
LastAdmin_Never(d, c) == FALSE

\* the last-admin test with adminCount < 1
LastAdmin_OffByOne(d, c) == AdminCount(d, c) < 1

\* if (adminCount <= 1) throw ..., in leaveCommunity and updateMemberRole
LastAdmin(d, c) == AdminCount(d, c) <= 1

\* leaveCommunity without its orphan cleanup
NoMemberRemains_Never(d, c) == FALSE

\* if (remaining === 0) delete the community, in leaveCommunity
NoMemberRemains(d, c) == MemberCount(d, c) = 0

\* joinCommunity without its existing-member test
ExistingMember_Never(d, c, u) == FALSE

\* if (existingMember) throw ..., in joinCommunity
ExistingMember(d, c, u) == RoleOf(d, c, u) # NoRow

\* createCommunity without the nested communityMembers create
CreateCommunityStep_NoOwner(d, f) ==
  LET c == d.nextCommunityId
  IN Respond([d EXCEPT
                !.community = @ \cup {[id |-> c, isPrivate |-> f.isPrivate]},
                !.nextCommunityId = c + 1],
             [f EXCEPT !.communityId = c], Created)

CreateCommunityStep(d, f) ==
  LET c == d.nextCommunityId
  IN Respond([d EXCEPT
                !.community = @ \cup {[id |-> c, isPrivate |-> f.isPrivate]},
                !.communityMember =
                   @ \cup {[communityId |-> c, userId |-> f.userId,
                            role |-> "OWNER"]},
                !.nextCommunityId = c + 1],
             [f EXCEPT !.communityId = c], Created)

UpdateCommunityStep(d, f) ==
  LET c == f.communityId
  IN CASE f.pc = "start" ->
            IF IsUserAdminOrOwner(d, c, f.userId) # "true"
            THEN Respond(d, f, IsUserAdminOrOwner(d, c, f.userId))
            ELSE Goto(d, f, "update")
       [] f.pc = "update" ->
            IF CommunityRows(d, c) = {} THEN Respond(d, f, RecordNotFound)
            ELSE Respond([d EXCEPT !.community =
                            (@ \ CommunityRows(d, c)) \cup
                            {[id |-> c, isPrivate |-> f.isPrivate]}],
                         f, Ok)

DeleteCommunityStep(d, f) ==
  LET c == f.communityId
  IN CASE f.pc = "start" ->
            IF IsUserAdminOrOwner(d, c, f.userId) # "true"
            THEN Respond(d, f, IsUserAdminOrOwner(d, c, f.userId))
            ELSE Goto(d, f, "deleteTx")
       [] f.pc = "deleteTx" ->
            IF CommunityRows(d, c) = {} THEN Respond(d, f, RecordNotFound)
            ELSE Respond(DeleteCommunityTx(d, c), f, NoContent)

\* communityMember.create with no unique key on (communityId, userId)
MemberKeyTaken_Never(d, c, u) == FALSE

\* the unique key communityId_userId, which communityMember.create violates
\* when the pair has a row
MemberKeyTaken(d, c, u) == MemberRows(d, c, u) # {}

\* joinCommunity creating the row with role DEVELOPER_I
JoinCommunityStep_DeveloperI(d, f) ==
  LET c == f.communityId
      u == f.userId
  IN CASE f.pc = "start" ->
            IF CommunityRows(d, c) = {} THEN Respond(d, f, NotFoundError)
            ELSE IF IsPrivate(d, c)
                 THEN Respond(d, f, ForbiddenError)
                 ELSE Goto(d, f, "findMember")
       [] f.pc = "findMember" ->
            IF ExistingMember(d, c, u) THEN Respond(d, f, AlreadyMember)
            ELSE Goto(d, f, "createMember")
       [] f.pc = "createMember" ->
            IF MemberKeyTaken(d, c, u) THEN Respond(d, f, UniqueViolation)
            ELSE IF CommunityRows(d, c) = {}
                 THEN Respond(d, f, ForeignKeyViolation)
                 ELSE Respond([d EXCEPT !.communityMember =
                                 @ \cup {[communityId |-> c, userId |-> u,
                                          role |-> "DEVELOPER_I"]}],
                              f, Created)

JoinCommunityStep(d, f) ==
  LET c == f.communityId
      u == f.userId
  IN CASE f.pc = "start" ->
            IF CommunityRows(d, c) = {} THEN Respond(d, f, NotFoundError)
            ELSE IF IsPrivate(d, c)
                 THEN Respond(d, f, ForbiddenError)
                 ELSE Goto(d, f, "findMember")
       [] f.pc = "findMember" ->
            IF ExistingMember(d, c, u) THEN Respond(d, f, AlreadyMember)
            ELSE Goto(d, f, "createMember")
       [] f.pc = "createMember" ->
            IF MemberKeyTaken(d, c, u) THEN Respond(d, f, UniqueViolation)
            ELSE IF CommunityRows(d, c) = {}
                 THEN Respond(d, f, ForeignKeyViolation)
                 ELSE Respond([d EXCEPT !.communityMember =
                                 @ \cup {[communityId |-> c, userId |-> u,
                                          role |-> "VIEWER"]}],
                              f, Created)

LeaveCommunityStep(d, f) ==
  LET c == f.communityId
      u == f.userId
  IN CASE f.pc = "start" ->
            IF CommunityRows(d, c) = {} THEN Respond(d, f, NotFoundError)
            ELSE Goto(d, f, "findMember")
       [] f.pc = "findMember" ->
            IF RoleOf(d, c, u) = NoRow THEN Respond(d, f, NotFoundError)
            ELSE IF RoleOf(d, c, u) = "OWNER"
                 THEN Found(d, f, RoleOf(d, c, u), "ownerTx")
            ELSE IF RoleOf(d, c, u) = "ADMIN"
                 THEN Found(d, f, RoleOf(d, c, u), "countAdmins")
            ELSE Found(d, f, RoleOf(d, c, u), "deleteMember")
       [] f.pc = "ownerTx" ->
            IF CommunityRows(d, c) = {} THEN Respond(d, f, RecordNotFound)
            ELSE Respond(DeleteCommunityTx(d, c), f, CommunityDeleted)
       [] f.pc = "countAdmins" ->
            IF LastAdmin(d, c) THEN Respond(d, f, LastAdminLeave)
            ELSE Goto(d, f, "deleteMember")
       [] f.pc = "deleteMember" ->
            IF MemberRows(d, c, u) = {} THEN Respond(d, f, RecordNotFound)
            ELSE Goto([d EXCEPT !.communityMember = @ \ MemberRows(d, c, u)],
                      f, "countRemaining")
       [] f.pc = "countRemaining" ->
            IF NoMemberRemains(d, c) THEN Goto(d, f, "deleteCommunity")
            ELSE Respond(d, f, Left)
       [] f.pc = "deleteCommunity" ->
            IF CommunityRows(d, c) = {} THEN Respond(d, f, RecordNotFound)
            ELSE Respond([d EXCEPT !.community = @ \ CommunityRows(d, c)],
                         f, Left)

UpdateMemberRoleStep(d, f) ==
  LET c == f.communityId
      t == f.targetUserId
  IN CASE f.pc = "start" ->
            IF IsUserAdminOrOwner(d, c, f.userId) # "true"
            THEN Respond(d, f, IsUserAdminOrOwner(d, c, f.userId))
            ELSE Goto(d, f, "txFind")
       [] f.pc = "txFind" ->
            IF RoleOf(d, c, t) = NoRow THEN Respond(d, f, NotFoundError)
            ELSE IF RoleOf(d, c, t) = "ADMIN" /\ f.role # "ADMIN"
                 THEN Found(d, f, RoleOf(d, c, t), "txCount")
                 ELSE Found(d, f, RoleOf(d, c, t), "txUpdate")
       [] f.pc = "txCount" ->
            IF LastAdmin(d, c) THEN Respond(d, f, LastAdminDemote)
            ELSE Goto(d, f, "txUpdate")
       [] f.pc = "txUpdate" ->
            IF MemberRows(d, c, t) = {} THEN Respond(d, f, RecordNotFound)
            ELSE Respond([d EXCEPT !.communityMember =
                            (@ \ MemberRows(d, c, t)) \cup
                            {[communityId |-> c, userId |-> t,
                              role |-> f.role]}],
                         f, Ok)

\* generateInviteLink of the controller variant that issues invites
GenerateInviteLinkStep(d, f) ==
  LET c == f.communityId
  IN CASE f.pc = "start" ->
            IF IsUserAdminOrOwner(d, c, f.userId) # "true"
            THEN Respond(d, f, ForbiddenError)
            ELSE Goto(d, f, "createInvite")
       [] f.pc = "createInvite" ->
            IF CommunityRows(d, c) = {} THEN Respond(d, f, ForeignKeyViolation)
            ELSE Respond([d EXCEPT !.communityInvite =
                            @ \cup {[code |-> d.nextCode, communityId |-> c]},
                          !.nextCode = @ + 1],
                         f, Ok)


\* ------------------------------------------------- role/permission table
Permissions ==
  {"CREATE_WORKSPACE", "EDIT_WORKSPACE", "DELETE_WORKSPACE",
   "MANAGE_WORKSPACE_SETTINGS", "ADD_MEMBER", "CHANGE_MEMBER_ROLE",
   "REMOVE_MEMBER", "CREATE_PROJECT", "EDIT_PROJECT", "DELETE_PROJECT",
   "CREATE_TASK", "EDIT_TASK", "DELETE_TASK", "VIEW_ONLY", "UPDATE_TASK",
   "ASSIGN_TASK"}

RoleTypes ==
  {"OWNER", "ADMIN", "MANAGER", "DEVELOPER I", "DEVELOPER II", "DEVELOPER III"}

RolePermissions_DevDeletesProject ==
  [rt \in RoleTypes |->
     CASE rt = "OWNER" ->
            {"CREATE_WORKSPACE", "EDIT_WORKSPACE", "DELETE_WORKSPACE",
             "MANAGE_WORKSPACE_SETTINGS", "ADD_MEMBER", "CHANGE_MEMBER_ROLE",
             "REMOVE_MEMBER", "CREATE_PROJECT", "EDIT_PROJECT",
             "DELETE_PROJECT", "CREATE_TASK", "EDIT_TASK", "DELETE_TASK",
             "VIEW_ONLY"}
       [] rt = "ADMIN" ->
            {"ADD_MEMBER", "CREATE_PROJECT", "EDIT_PROJECT", "DELETE_PROJECT",
             "CREATE_TASK", "EDIT_TASK", "DELETE_TASK",
             "MANAGE_WORKSPACE_SETTINGS", "VIEW_ONLY"}
       [] rt = "MANAGER" ->
            {"CREATE_PROJECT", "EDIT_PROJECT", "CREATE_TASK", "EDIT_TASK",
             "DELETE_TASK", "VIEW_ONLY"}
       [] rt = "DEVELOPER I" -> {"VIEW_ONLY", "CREATE_TASK", "EDIT_TASK"}
       [] rt = "DEVELOPER II" ->
            {"VIEW_ONLY", "CREATE_TASK", "EDIT_TASK", "DELETE_TASK"}
       [] rt = "DEVELOPER III" ->
            {"VIEW_ONLY", "CREATE_TASK", "EDIT_TASK", "DELETE_TASK",
             "EDIT_PROJECT", "DELETE_PROJECT"}]

RolePermissions ==
  [rt \in RoleTypes |->
     CASE rt = "OWNER" ->
            {"CREATE_WORKSPACE", "EDIT_WORKSPACE", "DELETE_WORKSPACE",
             "MANAGE_WORKSPACE_SETTINGS", "ADD_MEMBER", "CHANGE_MEMBER_ROLE",
             "REMOVE_MEMBER", "CREATE_PROJECT", "EDIT_PROJECT",
             "DELETE_PROJECT", "CREATE_TASK", "EDIT_TASK", "DELETE_TASK",
             "VIEW_ONLY"}
       [] rt = "ADMIN" ->
            {"ADD_MEMBER", "CREATE_PROJECT", "EDIT_PROJECT", "DELETE_PROJECT",
             "CREATE_TASK", "EDIT_TASK", "DELETE_TASK",
             "MANAGE_WORKSPACE_SETTINGS", "VIEW_ONLY"}
       [] rt = "MANAGER" ->
            {"CREATE_PROJECT", "EDIT_PROJECT", "CREATE_TASK", "EDIT_TASK",
             "DELETE_TASK", "VIEW_ONLY"}
       [] rt = "DEVELOPER I" -> {"VIEW_ONLY", "CREATE_TASK", "EDIT_TASK"}
       [] rt = "DEVELOPER II" ->
            {"VIEW_ONLY", "CREATE_TASK", "EDIT_TASK", "DELETE_TASK"}
       [] rt = "DEVELOPER III" ->
            {"VIEW_ONLY", "CREATE_TASK", "EDIT_TASK", "DELETE_TASK",
             "EDIT_PROJECT"}]

roleMapping ==
  [r \in Roles |->
     CASE r = "OWNER" -> "OWNER"
       [] r = "ADMIN" -> "ADMIN"
       [] r = "MANAGER" -> "MANAGER"
       [] r = "DEVELOPER_I" -> "DEVELOPER I"
       [] r = "DEVELOPER_II" -> "DEVELOPER II"
       [] r = "DEVELOPER_III" -> "DEVELOPER III"
       [] r = "VIEWER" -> "DEVELOPER I"]

roleGuard_Some(role, requiredPermissions) ==
  IF role = NoRow THEN "UnauthorizedException: Unauthorized"
  ELSE IF \E permission \in requiredPermissions :
             permission \in RolePermissions[roleMapping[role]]
       THEN "ok"
       ELSE InsufficientPermissions

\* roleGuard: "ok", or the exception it throws
roleGuard(role, requiredPermissions) ==
  IF role = NoRow THEN "UnauthorizedException: Unauthorized"
  ELSE IF \A permission \in requiredPermissions :
             permission \in RolePermissions[roleMapping[role]]
       THEN "ok"
       ELSE InsufficientPermissions

\* ------------------------------------------ task and project controllers
\* These handlers are run one at a time only, so each is a single step.
\* Task rows carry id, communityId, projectId, assignedToId (0: null) and
\* status; project rows carry id, communityId, createdById and name.
TaskStatuses == {"TODO", "DONE"}
ProjectNames == {"a", "b"}

TaskRows(d, id) == {t \in d.task : t.id = id}

\* task.findFirst({ where: { id: taskId, communityId } })
TaskInCommunity(d, id, c) == {t \in d.task : t.id = id /\ t.communityId = c}

\* project.findFirst({ where: { id: projectId, communityId } })
ProjectInCommunity(d, id, c) ==
  {q \in d.project : q.id = id /\ q.communityId = c}

\* getMemberRoleInWorkspace / checkCommunityMembership: the member's role, or
\* NoRow when they throw 'You are not a member of this community'
getMemberRoleInWorkspace(d, u, c) == RoleOf(d, c, u)

\* body field || null
OrNull(x) == IF x > 0 THEN x ELSE 0

\* body field as task.update data: undefined (-1) leaves the column alone
Updated(old, x) == IF x = -1 THEN old ELSE x

CreateTaskStep(d, f) ==
  LET c == f.communityId
      role == getMemberRoleInWorkspace(d, f.userId, c)
  IN IF role = NoRow THEN Respond(d, f, NotAMember)
     ELSE IF roleGuard(role, {"CREATE_TASK"}) # "ok"
          THEN Respond(d, f, roleGuard(role, {"CREATE_TASK"}))
     ELSE IF CommunityRows(d, c) = {} THEN Respond(d, f, NotFoundError)
     ELSE IF f.projectId > 0 /\ ProjectInCommunity(d, f.projectId, c) = {}
          THEN Respond(d, f, NotFoundError)
     ELSE IF f.assignedTo > 0 /\ RoleOf(d, c, f.assignedTo) = NoRow
          THEN Respond(d, f, NotFoundError)
     ELSE Respond([d EXCEPT
                     !.task = @ \cup
                       {[id |-> d.nextTaskId, communityId |-> c,
                         projectId |-> OrNull(f.projectId),
                         assignedToId |-> OrNull(f.assignedTo),
                         status |-> IF f.status = NoRole THEN "TODO"
                                                         ELSE f.status]},
                     !.nextTaskId = @ + 1],
                  f, Created)

AssignTaskStep(d, f) ==
  LET c == f.communityId
      role == getMemberRoleInWorkspace(d, f.userId, c)
  IN IF TaskRows(d, f.taskId) = {} THEN Respond(d, f, NotFoundError)
     ELSE IF TaskInCommunity(d, f.taskId, c) = {}
          THEN Respond(d, f, WrongCommunity)
     ELSE IF role = NoRow THEN Respond(d, f, NotAMember)
     ELSE IF roleGuard(role, {"ASSIGN_TASK"}) # "ok"
          THEN Respond(d, f, roleGuard(role, {"ASSIGN_TASK"}))
     ELSE IF f.assignedTo > 0 /\ RoleOf(d, c, f.assignedTo) = NoRow
          THEN Respond(d, f, NotFoundError)
     ELSE Respond([d EXCEPT !.task =
                     {IF t.id = f.taskId
                      THEN [t EXCEPT !.assignedToId = OrNull(f.assignedTo)]
                      ELSE t : t \in d.task}],
                  f, Ok)

UpdateTaskStep(d, f) ==
  LET c == f.communityId
  IN IF TaskInCommunity(d, f.taskId, c) = {} THEN Respond(d, f, NotFoundError)
     ELSE IF f.projectId > 0 /\ ProjectInCommunity(d, f.projectId, c) = {}
          THEN Respond(d, f, NotFoundError)
     ELSE IF f.assignedTo > 0 /\ RoleOf(d, c, f.assignedTo) = NoRow
          THEN Respond(d, f, NotFoundError)
     ELSE Respond([d EXCEPT !.task =
                     {IF t.id = f.taskId
                      THEN [t EXCEPT
                              !.projectId = Updated(@, f.projectId),
                              !.assignedToId = Updated(@, f.assignedTo),
                              !.status = IF f.status = NoRole THEN @
                                                              ELSE f.status]
                      ELSE t : t \in d.task}],
                  f, Ok)

DeleteTaskStep(d, f) ==
  LET c == f.communityId
  IN IF TaskInCommunity(d, f.taskId, c) = {} THEN Respond(d, f, NotFoundError)
     ELSE Respond([d EXCEPT !.task = @ \ TaskRows(d, f.taskId)], f, NoContent)

\* task.update({ where: { id: taskId, project: { communityId } } })
UpdateTaskStatusStep(d, f) ==
  LET c == f.communityId
      rows == {t \in TaskRows(d, f.taskId) :
                 t.projectId > 0 /\ ProjectInCommunity(d, t.projectId, c) # {}}
  IN IF rows = {} THEN Respond(d, f, ServerError)
     ELSE Respond([d EXCEPT !.task =
                     {IF t \in rows THEN [t EXCEPT !.status = f.status]
                      ELSE t : t \in d.task}],
                  f, Ok)

CreateProjectStep(d, f) ==
  LET c == f.communityId
      role == getMemberRoleInWorkspace(d, f.userId, c)
  IN IF role = NoRow THEN Respond(d, f, NotAMember)
     ELSE IF roleGuard(role, {"CREATE_PROJECT"}) # "ok"
          THEN Respond(d, f, roleGuard(role, {"CREATE_PROJECT"}))
     ELSE Respond([d EXCEPT
                     !.project = @ \cup
                       {[id |-> d.nextProjectId, communityId |-> c,
                         createdById |-> f.userId, name |-> f.status]},
                     !.projectMember = @ \cup
                       {[projectId |-> d.nextProjectId, userId |-> f.userId]},
                     !.nextProjectId = @ + 1],
                  f, Created)

\* project.createdById !== userId && role !== 'ADMIN' && role !== 'OWNER'
NotCreatorNorAdmin(d, f, role) ==
  /\ \A q \in ProjectInCommunity(d, f.projectId, f.communityId) :
        q.createdById # f.userId
  /\ role # "ADMIN"
  /\ role # "OWNER"

UpdateProjectStep(d, f) ==
  LET c == f.communityId
      role == getMemberRoleInWorkspace(d, f.userId, c)
  IN IF role = NoRow THEN Respond(d, f, NotAMember)
     ELSE IF roleGuard(role, {"EDIT_PROJECT"}) # "ok"
          THEN Respond(d, f, roleGuard(role, {"EDIT_PROJECT"}))
     ELSE IF ProjectInCommunity(d, f.projectId, c) = {}
          THEN Respond(d, f, NotFoundError)
     ELSE IF NotCreatorNorAdmin(d, f, role) THEN Respond(d, f, CreatorOnly)
     ELSE Respond([d EXCEPT !.project =
                     {IF q.id = f.projectId THEN [q EXCEPT !.name = f.status]
                      ELSE q : q \in d.project}],
                  f, Ok)

DeleteProjectStep(d, f) ==
  LET c == f.communityId
      role == getMemberRoleInWorkspace(d, f.userId, c)
  IN IF role = NoRow THEN Respond(d, f, NotAMember)
     ELSE IF roleGuard(role, {"DELETE_PROJECT"}) # "ok"
          THEN Respond(d, f, roleGuard(role, {"DELETE_PROJECT"}))
     ELSE IF ProjectInCommunity(d, f.projectId, c) = {}
          THEN Respond(d, f, NotFoundError)
     ELSE IF NotCreatorNorAdmin(d, f, role) THEN Respond(d, f, CreatorOnly)
     ELSE Respond([d EXCEPT
                     !.projectMember =
                        {pm \in @ : pm.projectId # f.projectId},
                     !.task =
                        {IF t.projectId = f.projectId
                         THEN [t EXCEPT !.projectId = 0]
                         ELSE t : t \in d.task},
                     !.project = {q \in @ : q.id # f.projectId}],
                  f, NoContent)

\* one statement of one request
Step(d, f) ==
  CASE f.op = "createCommunity" -> CreateCommunityStep(d, f)
    [] f.op = "updateCommunity" -> UpdateCommunityStep(d, f)
    [] f.op = "deleteCommunity" -> DeleteCommunityStep(d, f)
    [] f.op = "joinCommunity" -> JoinCommunityStep(d, f)
    [] f.op = "leaveCommunity" -> LeaveCommunityStep(d, f)
    [] f.op = "updateMemberRole" -> UpdateMemberRoleStep(d, f)
    [] f.op = "generateInviteLink" -> GenerateInviteLinkStep(d, f)
    [] f.op = "createTask" -> CreateTaskStep(d, f)
    [] f.op = "assignTask" -> AssignTaskStep(d, f)
    [] f.op = "updateTask" -> UpdateTaskStep(d, f)
    [] f.op = "deleteTask" -> DeleteTaskStep(d, f)
    [] f.op = "updateTaskStatus" -> UpdateTaskStatusStep(d, f)
    [] f.op = "createProject" -> CreateProjectStep(d, f)
    [] f.op = "updateProject" -> UpdateProjectStep(d, f)
    [] f.op = "deleteProject" -> DeleteProjectStep(d, f)

\* a whole request, start to response
RECURSIVE Run(_, _)
Run(d, f) ==
  IF f.pc = "done" THEN [d |-> d, f |-> f]
  ELSE LET r == Step(d, f) IN Run(r.d, r.f)

\* ------------------------------------------------ sequential specification
\* last: the operation that completed last, the roles its actor and target
\* held when it started, and its response.
NoLast ==
  [op |-> "none", out |-> Pending, actorRole |-> NoRow, targetRole |-> NoRow]

Completed(d, f) ==
  [op |-> f.op, out |-> f.out,
   actorRole |-> RoleOf(d, f.communityId, f.userId),
   targetRole |-> RoleOf(d, f.communityId, f.targetUserId)]

Handle(f) ==
  LET r == Run(db, f)
  IN /\ db' = r.d
     /\ last' = Completed(db, r.f)
     /\ UNCHANGED <<frames, client>>

Init ==
  /\ db = EmptyDb
  /\ last = NoLast
  /\ frames = [p \in Procs |-> Idle]
  /\ InitClient

CreateCommunity(u, p) ==
  /\ db.nextCommunityId <= MaxCommunities
  /\ Handle(Frame("createCommunity", u, 0, 0, NoRole, p))

UpdateCommunity(u, c, p) ==
  Handle(Frame("updateCommunity", u, c, 0, NoRole, p))

DeleteCommunity(u, c) ==
  Handle(Frame("deleteCommunity", u, c, 0, NoRole, FALSE))

JoinCommunity(u, c, k) ==
  Handle([BaseFrame("joinCommunity", u, c) EXCEPT !.code = k])

LeaveCommunity(u, c) ==
  Handle(Frame("leaveCommunity", u, c, 0, NoRole, FALSE))

UpdateMemberRole(u, c, t, r) ==
  Handle(Frame("updateMemberRole", u, c, t, r, FALSE))

GenerateInviteLink(u, c) ==
  /\ db.nextCode <= MaxInvites
  /\ Handle(Frame("generateInviteLink", u, c, 0, NoRole, FALSE))

Next ==
  \/ \E u \in Users, p \in BOOLEAN : CreateCommunity(u, p)
  \/ \E u \in Users, c \in CommunityIds, p \in BOOLEAN : UpdateCommunity(u, c, p)
  \/ \E u \in Users, c \in CommunityIds : DeleteCommunity(u, c)
  \/ \E u \in Users, c \in CommunityIds, k \in {0} \cup Codes :
        JoinCommunity(u, c, k)
  \/ \E u \in Users, c \in CommunityIds : LeaveCommunity(u, c)
  \/ \E u \in Users, c \in CommunityIds, t \in Users, r \in LifecycleRoles :
        UpdateMemberRole(u, c, t, r)
  \/ \E u \in Users, c \in CommunityIds : GenerateInviteLink(u, c)

Spec == Init /\ [][Next]_vars

\* ----------------------------------------------- interleaved specification
\* The requests that read and write the membership table.
MembershipRequests ==
  {Frame("joinCommunity", u, c, 0, NoRole, FALSE) :
      u \in Users, c \in CommunityIds}
  \cup {Frame("leaveCommunity", u, c, 0, NoRole, FALSE) :
      u \in Users, c \in CommunityIds}
  \cup {Frame("deleteCommunity", u, c, 0, NoRole, FALSE) :
      u \in Users, c \in CommunityIds}
  \cup {Frame("updateMemberRole", x[1], c, x[2], r, FALSE) :
      x \in Users \X Users, c \in CommunityIds, r \in LifecycleRoles}

\* a request arrives at process p
Begin(p, f) ==
  /\ frames[p].pc = "done"
  /\ frames' = [frames EXCEPT ![p] = f]
  /\ UNCHANGED <<db, last, client>>

\* process p executes its next awaited statement
StepRequest(p) ==
  /\ frames[p].pc # "done"
  /\ LET r == Step(db, frames[p])
     IN /\ db' = r.d
        /\ frames' = [frames EXCEPT
                        ![p] = [r.f EXCEPT !.wrote = @ \/ r.d # db]]
  /\ UNCHANGED <<last, client>>

\* another request runs from start to response between two statements
Commit(f) ==
  /\ db' = Run(db, f).d
  /\ UNCHANGED <<last, frames, client>>

CommitCreate(u, p) ==
  /\ db.nextCommunityId <= MaxCommunities
  /\ Commit(Frame("createCommunity", u, 0, 0, NoRole, p))

CommitInvite(u, c) ==
  /\ db.nextCode <= MaxInvites
  /\ Commit(Frame("generateInviteLink", u, c, 0, NoRole, FALSE))

NextConc ==
  \/ \E p \in Procs, f \in MembershipRequests : Begin(p, f)
  \/ \E p \in Procs : StepRequest(p)
  \/ \E f \in MembershipRequests : Commit(f)
  \/ \E u \in Users, p \in BOOLEAN : CommitCreate(u, p)
  \/ \E u \in Users, c \in CommunityIds : CommitInvite(u, c)

SpecConc == Init /\ [][NextConc]_vars


\* ------------------------------------------- task/project specification
\* One public community whose first user is a member with any role, whose
\* second user is a VIEWER and whose last user is not a member: the states
\* reached by createCommunity, joinCommunity and updateMemberRole.
WorkDb(r) ==
  [EmptyDb EXCEPT
     !.community = {[id |-> 1, isPrivate |-> FALSE]},
     !.communityMember =
        {[communityId |-> 1, userId |-> 1, role |-> r],
         [communityId |-> 1, userId |-> 2, role |-> "VIEWER"]},
     !.nextCommunityId = 2]

InitWork ==
  /\ db \in {WorkDb(r) : r \in Roles}
  /\ last = NoLast
  /\ frames = [p \in Procs |-> Idle]
  /\ InitClient

TaskIds == 1..MaxTasks
ProjectIds == 1..MaxProjects

CreateTask(u, c, q, a) ==
  /\ db.nextTaskId <= MaxTasks
  /\ Handle([BaseFrame("createTask", u, c) EXCEPT
               !.projectId = q, !.assignedTo = a])

AssignTask(u, c, t, a) ==
  Handle([BaseFrame("assignTask", u, c) EXCEPT !.taskId = t, !.assignedTo = a])

UpdateTask(u, c, t, q, a, st) ==
  Handle([BaseFrame("updateTask", u, c) EXCEPT
            !.taskId = t, !.projectId = q, !.assignedTo = a, !.status = st])

DeleteTask(u, c, t) ==
  Handle([BaseFrame("deleteTask", u, c) EXCEPT !.taskId = t])

UpdateTaskStatus(u, c, t, st) ==
  Handle([BaseFrame("updateTaskStatus", u, c) EXCEPT
            !.taskId = t, !.status = st])

CreateProject(u, c, n) ==
  /\ db.nextProjectId <= MaxProjects
  /\ Handle([BaseFrame("createProject", u, c) EXCEPT !.status = n])

UpdateProject(u, c, q, n) ==
  Handle([BaseFrame("updateProject", u, c) EXCEPT
            !.projectId = q, !.status = n])

DeleteProject(u, c, q) ==
  Handle([BaseFrame("deleteProject", u, c) EXCEPT !.projectId = q])

NextWork ==
  \/ \E u \in Users, c \in CommunityIds, q \in {0} \cup ProjectIds,
        a \in {0} \cup Users : CreateTask(u, c, q, a)
  \/ \E u \in Users, c \in CommunityIds, t \in TaskIds, a \in {0} \cup Users :
        AssignTask(u, c, t, a)
  \/ \E u \in Users, c \in CommunityIds, t \in TaskIds,
        q \in {-1} \cup ProjectIds, a \in {-1, 0} \cup Users,
        st \in {NoRole} \cup TaskStatuses : UpdateTask(u, c, t, q, a, st)
  \/ \E u \in Users, c \in CommunityIds, t \in TaskIds : DeleteTask(u, c, t)
  \/ \E u \in Users, c \in CommunityIds, t \in TaskIds, st \in TaskStatuses :
        UpdateTaskStatus(u, c, t, st)
  \/ \E u \in Users, c \in CommunityIds, n \in ProjectNames :
        CreateProject(u, c, n)
  \/ \E u \in Users, c \in CommunityIds, q \in ProjectIds, n \in ProjectNames :
        UpdateProject(u, c, q, n)
  \/ \E u \in Users, c \in CommunityIds, q \in ProjectIds :
        DeleteProject(u, c, q)

SpecWork == InitWork /\ [][NextWork]_vars

\* ------------------------------------------ authorization specification
\* The requests whose authorization is isUserAdminOrOwner, run one at a time
\* on a community whose first user holds any of the seven roles; a role
\* change may ask for any of the seven roles.
NextAuth ==
  \/ \E u \in Users, c \in CommunityIds, t \in Users, r \in Roles :
        UpdateMemberRole(u, c, t, r)
  \/ \E u \in Users, c \in CommunityIds : DeleteCommunity(u, c)
  \/ \E u \in Users, c \in CommunityIds : GenerateInviteLink(u, c)

SpecAuth == InitWork /\ [][NextAuth]_vars

\* --------------------------------------- a community beside another one
\* The populated community of InitWork, beside which one more community is
\* created; users join and leave either community.
AllCommunityIds == 1..(MaxCommunities + 1)

CreateCommunityBeside(u, p) ==
  /\ db.nextCommunityId <= MaxCommunities + 1
  /\ Handle(Frame("createCommunity", u, 0, 0, NoRole, p))

NextCreate ==
  \/ \E u \in Users, p \in BOOLEAN : CreateCommunityBeside(u, p)
  \/ \E u \in Users, c \in AllCommunityIds : JoinCommunity(u, c, 0)
  \/ \E u \in Users, c \in AllCommunityIds : LeaveCommunity(u, c)

SpecCreate == InitWork /\ [][NextCreate]_vars

\* ------------------------------------------- the role route, validated
\* PUT /:communityId/members/:userId/role.  validateRequest replaces
\* req.body by what the route's body schema parses, and a zod object keeps
\* only the keys it declares; the controller then parses req.body with its
\* own schema, which requires userId.  A ZodError has no statusCode.
ValidationFailed == "400"
ZodError == "ZodError"

\* updateMemberRoleBody.parse(body): z.object({ role })
updateMemberRoleBody(body) ==
  [out |-> IF body.role \in Roles THEN "ok" ELSE ValidationFailed,
   body |-> [role |-> body.role]]

\* validateRequest({ params, body }): req.params and req.body afterwards
validateRequest(params, body) ==
  [out |-> updateMemberRoleBody(body).out,
   params |-> params,
   body |-> updateMemberRoleBody(body).body]

\* updateMemberRoleSchema.parse(body): z.object({ userId, role })
updateMemberRoleSchema(body) ==
  IF "userId" \in DOMAIN body /\ body.role \in Roles
  THEN [out |-> "ok", userId |-> body.userId, role |-> body.role]
  ELSE [out |-> ZodError, userId |-> 0, role |-> NoRole]

\* the response to a request that a parse ended before any statement
Rejected(u, c, out) ==
  Completed(db, [BaseFrame("updateMemberRole", u, c) EXCEPT
                   !.pc = "done", !.out = out])

\* u: the authenticated user; c, pu: the URL parameters; bu: the body's
\* userId (0: none); r: the body's role
PutMemberRole(u, c, pu, bu, r) ==
  LET body == IF bu = 0 THEN [role |-> r] ELSE [userId |-> bu, role |-> r]
      req == validateRequest([communityId |-> c, userId |-> pu], body)
      parsed == updateMemberRoleSchema(req.body)
  IN IF req.out # "ok"
     THEN /\ last' = Rejected(u, c, req.out)
          /\ UNCHANGED <<db, frames, client>>
     ELSE IF parsed.out # "ok"
     THEN /\ last' = Rejected(u, req.params.communityId, parsed.out)
          /\ UNCHANGED <<db, frames, client>>
     ELSE Handle(Frame("updateMemberRole", u, req.params.communityId,
                       parsed.userId, parsed.role, FALSE))

NextRoute ==
  \/ \E u \in Users, c \in CommunityIds, pu \in Users, bu \in {0} \cup Users,
        r \in Roles \cup {"BOSS"} : PutMemberRole(u, c, pu, bu, r)
  \/ \E u \in Users, c \in CommunityIds : JoinCommunity(u, c, 0)
  \/ \E u \in Users, c \in CommunityIds : LeaveCommunity(u, c)
  \/ \E u \in Users, c \in CommunityIds : DeleteCommunity(u, c)

SpecRoute == InitWork /\ [][NextRoute]_vars

\* ------------------------------------- work and membership, one at a time
\* Tasks and projects are created and assigned in the populated community
\* while its members leave, others join, and the community is deleted.
NextMemberWork ==
  \/ \E u \in Users, c \in CommunityIds, q \in {0} \cup ProjectIds,
        a \in {0} \cup Users : CreateTask(u, c, q, a)
  \/ \E u \in Users, c \in CommunityIds, t \in TaskIds, a \in {0} \cup Users :
        AssignTask(u, c, t, a)
  \/ \E u \in Users, c \in CommunityIds, n \in ProjectNames :
        CreateProject(u, c, n)
  \/ \E u \in Users, c \in CommunityIds : JoinCommunity(u, c, 0)
  \/ \E u \in Users, c \in CommunityIds : LeaveCommunity(u, c)
  \/ \E u \in Users, c \in CommunityIds : DeleteCommunity(u, c)

SpecMemberWork == InitWork /\ [][NextMemberWork]_vars

\* ------------------------------------------------- the client auth store
\* The store's functions run on one thread: each runs to its await, and its
\* continuation runs when the response arrives; responses arrive in any
\* order.  A call holds the response the server gives to the request as it
\* was sent: the account for a signup or login the server accepts, the
\* account the request's cookie names for check-auth, 0 for an error.  The
\* browser stores or clears the cookie when the response arrives.  A logout
\* call keeps in seen the calls that were awaiting their response when it
\* was called, and marks them stale when it completes.
Call(fn, res) == [fn |-> fn, res |-> res, stale |-> FALSE, seen |-> {}]

Free(k) == calls[k].fn = "none"

\* the calls that await a response
Awaited == {j \in CallIds : ~Free(j)}

\* the calls after the call in slot k has become cs[k]: no logout keeps the
\* slot's earlier call in seen
Replaced(cs, k) ==
  [j \in CallIds |-> IF j = k THEN cs[j] ELSE [cs[j] EXCEPT !.seen = @ \ {k}]]

signup(k, res) ==
  /\ Free(k)
  /\ store' = [store EXCEPT !.loading = TRUE]
  /\ calls' = [calls EXCEPT ![k] = Call("signup", res)]
  /\ UNCHANGED <<cookie, db, last, frames>>

signupDone(k) ==
  /\ calls[k].fn = "signup"
  /\ store' = IF calls[k].res # 0
              THEN [store EXCEPT !.user = calls[k].res, !.loading = FALSE]
              ELSE [store EXCEPT !.loading = FALSE]
  /\ cookie' = IF calls[k].res # 0 THEN calls[k].res ELSE cookie
  /\ calls' = Replaced([calls EXCEPT ![k] = NoCall], k)
  /\ UNCHANGED <<db, last, frames>>

login(k, res) ==
  /\ Free(k)
  /\ store' = [store EXCEPT !.loading = TRUE]
  /\ calls' = [calls EXCEPT ![k] = Call("login", res)]
  /\ UNCHANGED <<cookie, db, last, frames>>

\* the response to login: on success the store takes the user and login
\* goes on to await get().checkAuth()
loginDone(k) ==
  /\ calls[k].fn = "login"
  /\ IF calls[k].res = 0
     THEN /\ store' = [store EXCEPT !.loading = FALSE]
          /\ calls' = Replaced([calls EXCEPT ![k] = NoCall], k)
          /\ UNCHANGED cookie
     ELSE /\ cookie' = calls[k].res
          /\ IF store.isCheckingAuthLocked \/ store.checkingAuth
             THEN /\ store' = [store EXCEPT !.user = calls[k].res,
                                            !.loading = FALSE]
                  /\ calls' = Replaced([calls EXCEPT ![k] = NoCall], k)
             ELSE /\ store' = [store EXCEPT !.user = calls[k].res,
                                            !.loading = FALSE,
                                            !.checkingAuth = TRUE,
                                            !.isCheckingAuthLocked = TRUE]
                  /\ calls' =
                       Replaced([calls EXCEPT
                                   ![k] = Call("checkAuth", calls[k].res)], k)
  /\ UNCHANGED <<db, last, frames>>

logout(k) ==
  /\ Free(k)
  /\ calls' = [calls EXCEPT ![k] = [Call("logout", 0) EXCEPT !.seen = Awaited]]
  /\ UNCHANGED <<store, cookie, db, last, frames>>

\* the response to logout, success or error: the same set() either way
logoutDone(k) ==
  /\ calls[k].fn = "logout"
  /\ store' = [store EXCEPT !.user = 0, !.loading = FALSE,
                            !.checkingAuth = FALSE]
  /\ cookie' = 0
  /\ calls' = Replaced([j \in CallIds |->
                          IF j = k THEN NoCall
                          ELSE IF j \in calls[k].seen
                               THEN [calls[j] EXCEPT !.stale = TRUE]
                               ELSE calls[j]], k)
  /\ UNCHANGED <<db, last, frames>>

checkAuth(k) ==
  /\ Free(k)
  /\ ~(store.isCheckingAuthLocked \/ store.checkingAuth)
  /\ store' = [store EXCEPT !.checkingAuth = TRUE,
                            !.isCheckingAuthLocked = TRUE]
  /\ calls' = [calls EXCEPT ![k] = Call("checkAuth", cookie)]
  /\ UNCHANGED <<cookie, db, last, frames>>

\* the response to check-auth: the user of the response, or null on an
\* error
checkAuthDone(k) ==
  /\ calls[k].fn = "checkAuth"
  /\ store' = [store EXCEPT !.user = calls[k].res, !.checkingAuth = FALSE,
                            !.isCheckingAuthLocked = FALSE]
  /\ calls' = Replaced([calls EXCEPT ![k] = NoCall], k)
  /\ UNCHANGED <<cookie, db, last, frames>>

NextStore ==
  \/ \E k \in CallIds, res \in {0} \cup Accounts : signup(k, res)
  \/ \E k \in CallIds : signupDone(k)
  \/ \E k \in CallIds, res \in {0} \cup Accounts : login(k, res)
  \/ \E k \in CallIds : loginDone(k)
  \/ \E k \in CallIds : logout(k)
  \/ \E k \in CallIds : logoutDone(k)
  \/ \E k \in CallIds : checkAuth(k)
  \/ \E k \in CallIds : checkAuthDone(k)

SpecStore == Init /\ [][NextStore]_vars

\* ------------------------------------------------------- the guard alone
\* roleGuard applied to every role (or none) and every array of required
\* permissions of up to MaxRequired distinct elements; last holds the call
\* and its outcome.
RequiredSets == {R \in SUBSET Permissions : Cardinality(R) <= MaxRequired}

CheckGuard(role, requiredPermissions) ==
  /\ last' = [op |-> "roleGuard",
              out |-> roleGuard(role, requiredPermissions),
              actorRole |-> role, targetRole |-> NoRow,
              required |-> requiredPermissions]
  /\ UNCHANGED <<db, frames, client>>

NextGuard ==
  \E role \in Roles \cup {NoRow}, requiredPermissions \in RequiredSets :
     CheckGuard(role, requiredPermissions)

SpecGuard == Init /\ [][NextGuard]_vars

\* ------------------------------------------------------------------ claims
HasOwnerOrAdmin(d, c) ==
  \E m \in MembersOf(d, c) : m.role \in {"OWNER", "ADMIN"}

\* C1: once every started operation has completed, every community that
\* exists has at least one membership row.  (Spec)
C1_CommunityHasMember ==
  \A r \in db.community : MembersOf(db, r.id) # {}

\* the only member of a community, neither OWNER nor ADMIN, has left and the
\* community has been removed with the membership
C1_Witness ==
  /\ last.op = "leaveCommunity"
  /\ last.out = Left
  /\ db.nextCommunityId > 1
  /\ db.community = {}
  /\ db.communityMember = {}

\* C2: every existing community has a member whose role is OWNER or ADMIN.
\* (Spec)
C2_OwnerEquivalentExists ==
  \A r \in db.community : HasOwnerOrAdmin(db, r.id)

\* C3: run one at a time, no successful Leave or UpdateMemberRole takes a
\* community that has an ADMIN and still exists afterwards to zero ADMINs,
\* and an UpdateMemberRole that would give the only ADMIN another role
\* fails and changes nothing.  (Spec)
C3_LastAdminKept ==
  [][/\ \A c \in CommunityIds :
          (/\ last'.op \in {"leaveCommunity", "updateMemberRole"}
           /\ last'.out \notin Failures
           /\ AdminCount(db, c) >= 1
           /\ CommunityRows(db', c) # {})
          => AdminCount(db', c) >= 1
     /\ \A u \in Users, c \in CommunityIds, t \in Users, r \in LifecycleRoles :
          (/\ last'.op = "updateMemberRole"
           /\ r # "ADMIN"
           /\ RoleOf(db, c, t) = "ADMIN"
           /\ AdminCount(db, c) = 1
           /\ UpdateMemberRole(u, c, t, r))
          => (last'.out \in Failures /\ db' = db)]_vars

\* the demotion of the only ADMIN, requested by an OWNER or ADMIN, was refused
C3_Witness ==
  /\ last.op = "updateMemberRole"
  /\ last.out = LastAdminDemote
  /\ last.targetRole = "ADMIN"

\* C4: under any interleaving of requests on one community, no statement of
\* a Leave of an ADMIN, or of an UpdateMemberRole that gives an ADMIN a
\* role other than ADMIN, takes a community that has an ADMIN and still
\* exists to zero ADMINs: two ADMINs of a community with two ADMINs cannot
\* both leave or be demoted (a community that keeps an OWNER is let pass
\* here, so that only a community left with neither ADMIN nor OWNER violates
\* this).  (SpecConc)
C4_LastAdminKeptInterleaved ==
  [][\A p \in Procs, c \in CommunityIds :
       (/\ frames[p].op \in {"leaveCommunity", "updateMemberRole"}
        /\ frames[p].memberRole = "ADMIN"
        /\ frames[p].role # "ADMIN"
        /\ frames'[p] # frames[p]
        /\ AdminCount(db, c) >= 1
        /\ CommunityRows(db', c) # {})
       => HasOwnerOrAdmin(db', c)]_vars

\* C5: UpdateMemberRole by an ADMIN whose target is the OWNER, asking for
\* any other role, fails with Forbidden and leaves the target OWNER.  (Spec)
C5_AdminCannotChangeOwner ==
  [][\A u \in Users, c \in CommunityIds, t \in Users,
        r \in LifecycleRoles \ {"OWNER"} :
       (/\ last'.op = "updateMemberRole"
        /\ RoleOf(db, c, u) = "ADMIN"
        /\ RoleOf(db, c, t) = "OWNER"
        /\ UpdateMemberRole(u, c, t, r))
       => (last'.out = ForbiddenError /\ RoleOf(db', c, t) = "OWNER")]_vars

\* C6: UpdateMemberRole by an ADMIN with newRole = OWNER fails and changes
\* no role (the claim names the failure Forbidden; any refusal is accepted
\* here, so that only a promotion that goes through violates this).  (Spec)
C6_AdminCannotMakeOwner ==
  [][\A u \in Users, c \in CommunityIds, t \in Users :
       (/\ last'.op = "updateMemberRole"
        /\ RoleOf(db, c, u) = "ADMIN"
        /\ UpdateMemberRole(u, c, t, "OWNER"))
       => (/\ last'.out \in Failures
           /\ db'.communityMember = db.communityMember)]_vars

WorkOps ==
  {"createTask", "assignTask", "updateTask", "deleteTask", "updateTaskStatus",
   "createProject", "updateProject", "deleteProject"}

\* C7: a mutating task or project request by a user who is not a member of
\* the community is rejected and leaves the task and project tables as
\* they were.  (SpecWork)
C7_NonMemberRejected ==
  [][(last'.op \in WorkOps /\ last'.actorRole = NoRow)
     => (/\ last'.out \in Failures
         /\ db'.task = db.task
         /\ db'.project = db.project
         /\ db'.projectMember = db.projectMember)]_vars

\* an invite row of community c with this code exists (invites are issued
\* with a 7-day expiry and no operation of the model lets that time pass)
ValidInvite(d, c, k) == \E i \in InvitesOf(d, c) : i.code = k

\* C8: Join on a private community by a non-member fails with Forbidden
\* without a valid invite code and creates the membership with one.  (Spec)
C8_PrivateJoinNeedsInvite ==
  [][\A u \in Users, c \in CommunityIds, k \in {0} \cup Codes :
       (/\ last'.op = "joinCommunity"
        /\ CommunityRows(db, c) # {}
        /\ IsPrivate(db, c)
        /\ RoleOf(db, c, u) = NoRow
        /\ JoinCommunity(u, c, k))
       => IF ValidInvite(db, c, k)
          THEN last'.out = Created /\ RoleOf(db', c, u) # NoRow
          ELSE last'.out = ForbiddenError /\ db' = db]_vars

C11_SoleMemberLeaveDeletesInvites ==
  [][\A u \in Users, c \in CommunityIds :
       (/\ last'.op = "leaveCommunity"
        /\ RoleOf(db, c, u) \notin {NoRow, "OWNER", "ADMIN"}
        /\ MemberCount(db, c) = 1
        /\ LeaveCommunity(u, c))
       => (/\ last'.out = Left
           /\ MembersOf(db', c) = {}
           /\ CommunityRows(db', c) = {}
           /\ InvitesOf(db', c) = {})]_vars

\* C12: run one at a time, a Leave by an ADMIN of a community with exactly
\* two ADMINs answers 'left' and removes that membership only; a Leave by
\* the ADMIN of a community with exactly one ADMIN (as after the first
\* Leave) fails with 'cannot leave as the last admin' and changes nothing.
\* (Spec)
C12_SecondAdminCannotLeave ==
  [][\A u \in Users, c \in CommunityIds :
       (/\ last'.op = "leaveCommunity"
        /\ RoleOf(db, c, u) = "ADMIN"
        /\ LeaveCommunity(u, c))
       => /\ Cardinality({m \in MembersOf(db, c) : m.role = "ADMIN"}) = 2
             => /\ last'.out = Left
                /\ db'.communityMember =
                     db.communityMember \ MemberRows(db, c, u)
                /\ db'.community = db.community
                /\ db'.communityInvite = db.communityInvite
          /\ Cardinality({m \in MembersOf(db, c) : m.role = "ADMIN"}) = 1
             => /\ last'.out = LastAdminLeave
                /\ db' = db]_vars

\* one of two ADMINs has left and exactly one ADMIN remains, whose own Leave
\* is the refused one
C12_Witness ==
  /\ last.op = "leaveCommunity"
  /\ last.out = Left
  /\ last.actorRole = "ADMIN"
  /\ \E c \in CommunityIds :
       Cardinality({m \in MembersOf(db, c) : m.role = "ADMIN"}) = 1

C14_DeleteNeedsAdminOrOwner ==
  [][\A u \in Users, c \in CommunityIds :
       (/\ last'.op = "deleteCommunity"
        /\ DeleteCommunity(u, c))
       => IF RoleOf(db, c, u) \in {"ADMIN", "OWNER"}
          THEN /\ last'.out = NoContent
               /\ CommunityRows(db', c) = {}
               /\ MembersOf(db', c) = {}
               /\ InvitesOf(db', c) = {}
          ELSE /\ last'.out \in Failures
               /\ db' = db]_vars

\* an ADMIN or OWNER has deleted a community that had an invite, and no
\* community, membership or invite row is left
C14_Witness ==
  /\ last.op = "deleteCommunity"
  /\ last.out = NoContent
  /\ last.actorRole \in {"ADMIN", "OWNER"}
  /\ db.nextCode > 1
  /\ db.community = {}
  /\ db.communityMember = {}
  /\ db.communityInvite = {}

\* C15: in every state, also between the statements of a Join that is
\* interleaved with other requests of the same user, a (community, user)
\* pair has at most one membership row.  (SpecConc)
C15_OneMembershipPerUser ==
  \A c \in CommunityIds, u \in Users : Cardinality(MemberRows(db, c, u)) <= 1

\* a Join found no membership, another request of the same user created one
\* before its insert, and the insert was refused by the unique key
C15_Witness ==
  \E p \in Procs :
    /\ frames[p].op = "joinCommunity"
    /\ frames[p].out = UniqueViolation
    /\ MemberRows(db, frames[p].communityId, frames[p].userId) # {}

\* C16: under any interleaving, no state is observable in which a community
\* row exists and no membership row references it: the membership delete,
\* the count of remaining members and the orphan cleanup of a Leave are one
\* step.  (SpecConc)
C16_LeaveIsOneStep ==
  \A c \in CommunityIds : CommunityRows(db, c) # {} => MemberCount(db, c) > 0

\* C17: under any interleaving, a statement of an UpdateMemberRole or of a
\* DeleteCommunity writes to the database only in a state in which the
\* request's actor is a member with role ADMIN or OWNER.  (SpecConc)
C17_WriteSeesActorRole ==
  [][\A p \in Procs :
       (/\ frames[p].op \in {"updateMemberRole", "deleteCommunity"}
        /\ frames[p].pc # "done"
        /\ frames'[p] # frames[p]
        /\ db' # db)
       => RoleOf(db, frames[p].communityId, frames[p].userId)
            \in {"ADMIN", "OWNER"}]_vars

LifecycleOps ==
  {"createCommunity", "joinCommunity", "leaveCommunity", "updateMemberRole",
   "deleteCommunity"}

\* C18: under any interleaving, a lifecycle request that reports a failure
\* has changed nothing: neither the statement that fails nor a statement
\* the request ran before it has written to the database.  (SpecConc)
C18_FailureWritesNothing ==
  [][\A p \in Procs :
       (/\ frames[p].op \in LifecycleOps
        /\ frames[p].pc # "done"
        /\ frames'[p] # frames[p]
        /\ frames'[p].out \in Failures)
       => (db' = db /\ ~frames'[p].wrote)]_vars

\* C19: an UpdateMemberRole by a member goes through only when the
\* permission table gives the member's role CHANGE_MEMBER_ROLE, and is not
\* answered Forbidden when it does: the roles authorized to change roles
\* are the roles the table gives that permission.  (SpecAuth)
C19_RoleChangeFollowsTable ==
  [][\A u \in Users, c \in CommunityIds, t \in Users, r \in Roles :
       (/\ last'.op = "updateMemberRole"
        /\ RoleOf(db, c, u) # NoRow
        /\ UpdateMemberRole(u, c, t, r))
       => IF "CHANGE_MEMBER_ROLE"
               \in RolePermissions[roleMapping[RoleOf(db, c, u)]]
          THEN last'.out # ForbiddenError
          ELSE last'.out \in Failures]_vars

\* C20: for each of the seven roles and every set of required permissions
\* roleGuard allows exactly when every required permission is in the set
\* the table gives the role (VIEWER through DEVELOPER I), and with no role
\* it denies whatever is required.  (SpecGuard)
C20_GuardIsSubsetTest ==
  last.op = "roleGuard" =>
    IF last.actorRole = NoRow
    THEN last.out # "ok"
    ELSE (last.out = "ok")
           <=> (last.required \subseteq
                  RolePermissions[roleMapping[last.actorRole]])

C20_Witness ==
  /\ last.op = "roleGuard"
  /\ last.actorRole = "VIEWER"
  /\ last.required = {"CREATE_TASK", "DELETE_TASK"}
  /\ last.out = InsufficientPermissions

\* C21: the permission sets are nested along the hierarchy: whatever the
\* guard allows a role it allows the next role up (a developer tier or
\* VIEWER, then MANAGER, then ADMIN, then OWNER), and every role is allowed
\* at least one permission.  (SpecGuard)
C21_PermissionsNested ==
  (last.op = "roleGuard" /\ last.actorRole # NoRow) =>
    /\ \E permission \in Permissions :
          roleGuard(last.actorRole, {permission}) = "ok"
    /\ last.out = "ok" =>
         /\ last.actorRole
              \in {"DEVELOPER_III", "DEVELOPER_II", "DEVELOPER_I", "VIEWER"}
              => roleGuard("MANAGER", last.required) = "ok"
         /\ last.actorRole = "MANAGER"
              => roleGuard("ADMIN", last.required) = "ok"
         /\ last.actorRole = "ADMIN"
              => roleGuard("OWNER", last.required) = "ok"

C21_Witness ==
  /\ last.op = "roleGuard"
  /\ last.actorRole = "DEVELOPER_III"
  /\ last.required = {"EDIT_PROJECT", "DELETE_TASK"}
  /\ last.out = "ok"

\* C22: createCommunity by any user, member of another community or not,
\* answers 201 and adds in one step one community row and one membership
\* row, the actor's with role OWNER; every other row of every table is as
\* it was.  (SpecCreate)
C22_CreateAddsCommunityAndOwner ==
  [][\A u \in Users, p \in BOOLEAN :
       (/\ last'.op = "createCommunity"
        /\ CreateCommunityBeside(u, p))
       => LET c == db.nextCommunityId
          IN /\ last'.out = Created
             /\ CommunityRows(db, c) = {}
             /\ db'.community =
                  db.community \cup {[id |-> c, isPrivate |-> p]}
             /\ MembersOf(db, c) = {}
             /\ db'.communityMember =
                  db.communityMember
                    \cup {[communityId |-> c, userId |-> u, role |-> "OWNER"]}
             /\ db'.communityInvite = db.communityInvite
             /\ db'.project = db.project
             /\ db'.projectMember = db.projectMember
             /\ db'.task = db.task]_vars

C22_Witness ==
  /\ last.op = "createCommunity"
  /\ last.out = Created
  /\ RoleOf(db, 1, 2) = "VIEWER"
  /\ RoleOf(db, 2, 2) = "OWNER"
  /\ MemberCount(db, 1) >= 2

\* C23: joinCommunity by a user who is not a member of an existing public
\* community answers 201 and adds that user's membership row with role
\* VIEWER; every other membership row, the roles of the other members
\* included, and every community row are as they were.  (SpecCreate)
C23_JoinPublicAddsViewer ==
  [][\A u \in Users, c \in AllCommunityIds :
       (/\ last'.op = "joinCommunity"
        /\ CommunityRows(db, c) # {}
        /\ ~IsPrivate(db, c)
        /\ RoleOf(db, c, u) = NoRow
        /\ JoinCommunity(u, c, 0))
       => /\ last'.out = Created
          /\ db'.communityMember =
               db.communityMember
                 \cup {[communityId |-> c, userId |-> u, role |-> "VIEWER"]}
          /\ db'.community = db.community]_vars

C23_Witness ==
  /\ last.op = "joinCommunity"
  /\ last.out = Created
  /\ RoleOf(db, 1, 3) = "VIEWER"
  /\ RoleOf(db, 1, 1) = "MANAGER"
  /\ RoleOf(db, 1, 2) = "VIEWER"

\* C24: a role request sent through the route by the OWNER, naming an
\* existing member in the URL and a valid role in the body (with or
\* without a userId in the body), answers 200 and sets the role of the
\* member named in the URL to the requested role.  (SpecRoute)
C24_RouteSetsRole ==
  [][\A u \in Users, c \in CommunityIds, pu \in Users, bu \in {0} \cup Users,
        r \in Roles :
       (/\ last'.op = "updateMemberRole"
        /\ RoleOf(db, c, u) = "OWNER"
        /\ RoleOf(db, c, pu) # NoRow
        /\ PutMemberRole(u, c, pu, bu, r))
       => /\ last'.out = Ok
          /\ RoleOf(db', c, pu) = r]_vars

\* C25: deleteProject on a project of the community succeeds exactly when
\* the actor is a member of the community who created the project or whose
\* role is ADMIN or OWNER; the creator succeeds with any role.  (SpecWork)
C25_CreatorOrAdminDeletesProject ==
  [][\A u \in Users, c \in CommunityIds, q \in ProjectIds :
       (/\ last'.op = "deleteProject"
        /\ ProjectInCommunity(db, q, c) # {}
        /\ DeleteProject(u, c, q))
       => (last'.out = NoContent
             <=> /\ RoleOf(db, c, u) # NoRow
                 /\ \/ \E pr \in ProjectInCommunity(db, q, c) :
                          pr.createdById = u
                    \/ RoleOf(db, c, u) \in {"ADMIN", "OWNER"})]_vars

\* C26: in every state reached by createCommunity, joinCommunity,
\* leaveCommunity and updateMemberRole requests each community has at most
\* one member with role OWNER.  (Spec)
C26_AtMostOneOwner ==
  \A c \in CommunityIds :
     Cardinality({m \in MembersOf(db, c) : m.role = "OWNER"}) <= 1

\* C27: in every state, every task of an existing community that has an
\* assignee is assigned to a user who is a member of that community, also
\* after the assignee has left.  (SpecMemberWork)
C27_AssigneeIsMember ==
  \A t \in db.task :
     (t.assignedToId # 0 /\ CommunityRows(db, t.communityId) # {})
       => RoleOf(db, t.communityId, t.assignedToId) # NoRow

\* C28: in every state, every project and every task belongs to a community
\* that exists, and every project membership to such a project: deleting a
\* community, by deleteCommunity or by a Leave, leaves no project, project
\* membership or task of that community behind.  (SpecMemberWork)
C28_NoOrphanedWork ==
  /\ \A t \in db.task : CommunityRows(db, t.communityId) # {}
  /\ \A q \in db.project : CommunityRows(db, q.communityId) # {}
  /\ \A pm \in db.projectMember :
        \E q \in db.project :
           q.id = pm.projectId /\ CommunityRows(db, q.communityId) # {}

\* C29: the permission assignTask requires is one the OWNER has: assignTask
\* by the OWNER of the community, on an existing task of the community and
\* with an assignee who is a member, answers 200 and makes that member the
\* task's assignee.  (SpecWork)
C29_OwnerCanAssignTask ==
  [][\A u \in Users, c \in CommunityIds, t \in TaskIds, a \in Users :
       (/\ last'.op = "assignTask"
        /\ RoleOf(db, c, u) = "OWNER"
        /\ TaskInCommunity(db, t, c) # {}
        /\ RoleOf(db, c, a) # NoRow
        /\ AssignTask(u, c, t, a))
       => /\ roleGuard("OWNER", {"ASSIGN_TASK"}) = "ok"
          /\ last'.out = Ok
          /\ \A row \in TaskRows(db', t) : row.assignedToId = a]_vars

\* C30: a checkAuth that was awaiting its response when logout was called
\* does not set a user when its response arrives after that logout has
\* completed, and whenever no checkAuth is awaiting a response
\* checkingAuth and isCheckingAuthLocked are both false.  (SpecStore)
C30_LogoutIsNotUndone ==
  [][/\ \A k \in CallIds :
          (calls[k].fn = "checkAuth" /\ calls[k].stale /\ checkAuthDone(k))
            => store'.user = 0
     /\ (\A k \in CallIds : calls'[k].fn # "checkAuth")
          => (~store'.checkingAuth /\ ~store'.isCheckingAuthLocked)]_vars

====
